---- MODULE Spec2Model ----
(***************************************************************************)
(* The worked examples of the parallel-programming workshop notebooks:     *)
(*   - fib in Python, in C and in Cython            (Cython notebook)      *)
(*   - the prange sum and the nogil/parallel block  (Cython notebook)      *)
(*   - the Monte Carlo pi estimate over a Pool      (multiprocessing)      *)
(*   - hello/Barrier and the Bcast example          (mpi4py notebook)      *)
(* Each example is a state machine of its own; the variables of the other  *)
(* examples stay at their idle values while one example runs.              *)
(***************************************************************************)
EXTENDS Integers, Sequences, FiniteSets, TLC

VARIABLES
    \* ---- fib, one run per language version, on the same argument
    fib_n,      \* the argument n
    fib_pc,     \* version -> "idle" | "loop" | "returned"
    fib_i,      \* version -> iterations of the for loop completed
    fib_a,      \* version -> a
    fib_b,      \* version -> b
    fib_ret,    \* version -> returned value (None before the return)
    \* ---- the mpi4py script (hello cell, then the broadcast cell), one run per rank
    size,       \* comm.size, the number of ranks mpirun started (0: not running)
    mpi_pc,     \* rank -> position in Program of its next statement
    inCall,     \* rank -> TRUE while inside the collective call at mpi_pc
    A,          \* rank -> its vector A (NoVector before it is assigned)
    bcastBuf,   \* what the root handed to Bcast (NoVector before the root calls it)
    stdout,     \* the lines printed so far: <<rank, line, value>>
    \* ---- the Monte Carlo pi estimate over a multiprocessing Pool
    number_samples_in_total,
    number_parallel_blocks,         \* 0: the notebook is not running
    number_samples_per_worker_task, \* the quotient, a float: <<numerator, denominator>>
    number_trials_per_process,      \* the list handed to pool.map
    main_pc,                        \* the notebook cell the main process is at
    taskqueue,                      \* indices of the list not yet taken by a worker
    wtask,                          \* worker -> index of the entry it is running (0: idle)
    step,                           \* worker -> loop variable of the running call
    number_trials_in_quarter_circle,\* worker -> local counter of the running call
    rng,                            \* process -> state of its random module's generator
    results,                        \* index -> result received from a worker
    number_in_unit_circles,         \* the value pool.map returned
    pi_estimate,                    \* <<numerator, denominator>>
    trialsOf,                       \* history: index -> loop iterations executed for it
    entryRng,                       \* history: index -> generator state when its call began
    finishOrder,                    \* history: indices in the order their calls completed
    \* ---- the prange sum
    n,          \* cdef int n
    sum,        \* cdef int sum
    nthreads,   \* size of the thread team running the loop (0: not running)
    chunk,      \* iterations per chunk handed to a thread
    todo,       \* first iterations of the chunks not yet handed out
    pr_pc,      \* thread -> "idle" | "load" | "store" | "joined"
    i,          \* thread -> its private loop variable
    acc,        \* copy -> value of that private copy of sum
    reg,        \* thread -> the value it loaded for sum += i
    shown,      \* the lines print(sum) wrote
    \* ---- the nogil/parallel block
    team,       \* size of the thread team (0: not running)
    tm_pc,      \* thread -> the statement of the block it is at (1..4, 5: left)
    num_threads,\* copy -> value of that copy of num_threads
    thread_id,  \* copy -> value of that copy of thread_id
    terminal    \* the lines written by printf, in order: <<thread, text, value>>

fibVars == <<fib_n, fib_pc, fib_i, fib_a, fib_b, fib_ret>>
mpiVars == <<size, mpi_pc, inCall, A, bcastBuf, stdout>>
poolVars ==
    <<number_samples_in_total, number_parallel_blocks, number_samples_per_worker_task,
      number_trials_per_process, main_pc, taskqueue, wtask, step,
      number_trials_in_quarter_circle, rng, results, number_in_unit_circles,
      pi_estimate, trialsOf, entryRng, finishOrder>>
prangeVars == <<n, sum, nthreads, chunk, todo, pr_pc, i, acc, reg, shown>>
teamVars == <<team, tm_pc, num_threads, thread_id, terminal>>
vars == <<fibVars, mpiVars, poolVars, prangeVars, teamVars>>

None == "None"
\* A vector not yet assigned (no array).
NoVector == <<>>

(***************************************************************************)
(* fib                                                                     *)
(***************************************************************************)
\* The argument n ranges over -NegFibN .. MaxFibN.
NegFibN == 2
MaxFibN == 10

Versions == {"python", "c", "cython"}

\* Values an uninitialised C double may be read as.
UninitDoubles == {0, 7}

\* As if written  a = a + b; b = a.
PyLoopBodySequential(x, y) == <<x + y, x + y>>
\* a, b = a + b, a       (the right-hand side is evaluated first)
PyLoopBody(x, y) == <<x + y, x>>

\* tmp a; a = a + b; b = tmp;   "tmp a;" assigns nothing: tmp is still the
\* uninitialised double of its declaration when b = tmp reads it (g).
CLoopBody(x, y, g) == <<x + y, g>>

\* a, b = a + b, a   with a, b cdef double
CyLoopBody(x, y) == <<x + y, x>>

fibStart ==
    /\ fib_n \in (0 - NegFibN)..MaxFibN
    /\ fib_pc = [v \in Versions |-> "loop"]
    /\ fib_i = [v \in Versions |-> 0]
    /\ fib_a = [v \in Versions |-> 0]
    /\ fib_b = [v \in Versions |-> 1]
    /\ fib_ret = [v \in Versions |-> None]

fibIdle ==
    /\ fib_n = 0
    /\ fib_pc = [v \in Versions |-> "idle"]
    /\ fib_i = [v \in Versions |-> 0]
    /\ fib_a = [v \in Versions |-> 0]
    /\ fib_b = [v \in Versions |-> 0]
    /\ fib_ret = [v \in Versions |-> None]

\* Python:  for i in range(n): a, b = a + b, a
PyIterate ==
    /\ fib_pc["python"] = "loop"
    /\ fib_i["python"] < fib_n
    /\ fib_a' = [fib_a EXCEPT !["python"] = PyLoopBody(fib_a["python"], fib_b["python"])[1]]
    /\ fib_b' = [fib_b EXCEPT !["python"] = PyLoopBody(fib_a["python"], fib_b["python"])[2]]
    /\ fib_i' = [fib_i EXCEPT !["python"] = @ + 1]
    /\ UNCHANGED <<fib_n, fib_pc, fib_ret, mpiVars, poolVars, prangeVars, teamVars>>

\* Python:  return a
PyReturn ==
    /\ fib_pc["python"] = "loop"
    /\ ~(fib_i["python"] < fib_n)
    /\ fib_ret' = [fib_ret EXCEPT !["python"] = fib_a["python"]]
    /\ fib_pc' = [fib_pc EXCEPT !["python"] = "returned"]
    /\ UNCHANGED <<fib_n, fib_i, fib_a, fib_b, mpiVars, poolVars, prangeVars, teamVars>>

\* C:  for (i=0; i<n; ++i) { tmp a; a = a + b; b = tmp; }
CIterate ==
    /\ fib_pc["c"] = "loop"
    /\ fib_i["c"] < fib_n
    /\ \E g \in UninitDoubles :
          /\ fib_a' = [fib_a EXCEPT !["c"] = CLoopBody(fib_a["c"], fib_b["c"], g)[1]]
          /\ fib_b' = [fib_b EXCEPT !["c"] = CLoopBody(fib_a["c"], fib_b["c"], g)[2]]
    /\ fib_i' = [fib_i EXCEPT !["c"] = @ + 1]
    /\ UNCHANGED <<fib_n, fib_pc, fib_ret, mpiVars, poolVars, prangeVars, teamVars>>

\* C:  return a;
CReturn ==
    /\ fib_pc["c"] = "loop"
    /\ ~(fib_i["c"] < fib_n)
    /\ fib_ret' = [fib_ret EXCEPT !["c"] = fib_a["c"]]
    /\ fib_pc' = [fib_pc EXCEPT !["c"] = "returned"]
    /\ UNCHANGED <<fib_n, fib_i, fib_a, fib_b, mpiVars, poolVars, prangeVars, teamVars>>

\* Cython:  for i in range(n): a, b = a + b, a
CyIterate ==
    /\ fib_pc["cython"] = "loop"
    /\ fib_i["cython"] < fib_n
    /\ fib_a' = [fib_a EXCEPT !["cython"] = CyLoopBody(fib_a["cython"], fib_b["cython"])[1]]
    /\ fib_b' = [fib_b EXCEPT !["cython"] = CyLoopBody(fib_a["cython"], fib_b["cython"])[2]]
    /\ fib_i' = [fib_i EXCEPT !["cython"] = @ + 1]
    /\ UNCHANGED <<fib_n, fib_pc, fib_ret, mpiVars, poolVars, prangeVars, teamVars>>

\* Cython:  return a
CyReturn ==
    /\ fib_pc["cython"] = "loop"
    /\ ~(fib_i["cython"] < fib_n)
    /\ fib_ret' = [fib_ret EXCEPT !["cython"] = fib_a["cython"]]
    /\ fib_pc' = [fib_pc EXCEPT !["cython"] = "returned"]
    /\ UNCHANGED <<fib_n, fib_i, fib_a, fib_b, mpiVars, poolVars, prangeVars, teamVars>>

fibNext ==
    \/ PyIterate
    \/ PyReturn
    \/ CIterate
    \/ CReturn
    \/ CyIterate
    \/ CyReturn

(***************************************************************************)
(* mpi4py: the hello cell and the broadcasting example                     *)
(***************************************************************************)
\* mpirun -np size, size in 1..MaxRanks.
MaxRanks == 3

Ranks == 0..(size - 1)

\* N = 5
N == 5

\* np.arange(N, dtype=np.float64)
arange(k) == [j \in 1..k |-> j - 1]

\* np.empty(N, dtype=np.float64): whatever the allocated memory holds.
EmptyArrays == {[j \in 1..N |-> 0], [j \in 1..N |-> 9], [j \in 1..N |-> N - j]}

\* Bcast's root argument, left at its default.
BcastRoot == 0

\* As if the broadcast cell called comm.Barrier() before printing its header.
ProgramBarrierFirst ==
    << [op |-> "print", line |-> "Hello"],
       [op |-> "Barrier"],
       [op |-> "Barrier"],
       [op |-> "print", line |-> "dashes1"],
       [op |-> "print", line |-> "Running on"],
       [op |-> "print", line |-> "dashes2"],
       [op |-> "assign_A"],
       [op |-> "Bcast"],
       [op |-> "print", line |-> "A"] >>
\* The statements every rank executes, in order: the hello cell, then the
\* broadcast cell.
Program ==
    << [op |-> "print", line |-> "Hello"],
       [op |-> "Barrier"],
       [op |-> "print", line |-> "dashes1"],
       [op |-> "print", line |-> "Running on"],
       [op |-> "print", line |-> "dashes2"],
       [op |-> "Barrier"],
       [op |-> "assign_A"],
       [op |-> "Bcast"],
       [op |-> "print", line |-> "A"] >>

AtOp(r, op) ==
    /\ r \in Ranks
    /\ mpi_pc[r] <= Len(Program)
    /\ Program[mpi_pc[r]].op = op

\* Rank q has entered the collective call at position p of the program.
Entered(q, p) == mpi_pc[q] > p \/ (mpi_pc[q] = p /\ inCall[q])

\* As if the proper data were given to the last rank.
InitialALastRank(r, e) == IF r = size - 1 THEN arange(N) ELSE e
\* if comm.rank == 0: A = np.arange(N) else: A = np.empty(N)
InitialA(r, e) == IF r = 0 THEN arange(N) ELSE e

\* What a print statement writes.
PrintedValue(r, line) ==
    CASE line = "Hello" -> <<r, size>>
      [] line = "Running on" -> size
      [] line = "A" -> A[r]
      [] OTHER -> 0

mpiStart ==
    /\ size \in 1..MaxRanks
    /\ mpi_pc = [r \in Ranks |-> 1]
    /\ inCall = [r \in Ranks |-> FALSE]
    /\ A = [r \in Ranks |-> NoVector]
    /\ bcastBuf = NoVector
    /\ stdout = {}

mpiIdle ==
    /\ size = 0
    /\ mpi_pc = <<>>
    /\ inCall = <<>>
    /\ A = <<>>
    /\ bcastBuf = NoVector
    /\ stdout = {}

\* print(...)
DoPrint(r) ==
    /\ AtOp(r, "print")
    /\ stdout' = stdout \cup
          {<<r, Program[mpi_pc[r]].line, PrintedValue(r, Program[mpi_pc[r]].line)>>}
    /\ mpi_pc' = [mpi_pc EXCEPT ![r] = @ + 1]
    /\ UNCHANGED <<size, inCall, A, bcastBuf, fibVars, poolVars, prangeVars, teamVars>>

\* comm.Barrier(): the call is entered ...
BarrierEnter(r) ==
    /\ AtOp(r, "Barrier")
    /\ ~inCall[r]
    /\ inCall' = [inCall EXCEPT ![r] = TRUE]
    /\ UNCHANGED <<size, mpi_pc, A, bcastBuf, stdout, fibVars, poolVars, prangeVars, teamVars>>

\* ... and returns once every rank of the communicator has entered it.
BarrierReturn(r) ==
    /\ AtOp(r, "Barrier")
    /\ inCall[r]
    /\ \A q \in Ranks : Entered(q, mpi_pc[r])
    /\ inCall' = [inCall EXCEPT ![r] = FALSE]
    /\ mpi_pc' = [mpi_pc EXCEPT ![r] = @ + 1]
    /\ UNCHANGED <<size, A, bcastBuf, stdout, fibVars, poolVars, prangeVars, teamVars>>

\* N = 5; if comm.rank == 0: A = np.arange(...) else: A = np.empty(...)
AssignA(r) ==
    /\ AtOp(r, "assign_A")
    /\ \E e \in EmptyArrays : A' = [A EXCEPT ![r] = InitialA(r, e)]
    /\ mpi_pc' = [mpi_pc EXCEPT ![r] = @ + 1]
    /\ UNCHANGED <<size, inCall, bcastBuf, stdout, fibVars, poolVars, prangeVars, teamVars>>

\* comm.Bcast([A, MPI.DOUBLE]): the call is entered; the root hands over its
\* buffer ...
BcastEnter(r) ==
    /\ AtOp(r, "Bcast")
    /\ ~inCall[r]
    /\ inCall' = [inCall EXCEPT ![r] = TRUE]
    /\ bcastBuf' = IF r = BcastRoot THEN A[r] ELSE bcastBuf
    /\ UNCHANGED <<size, mpi_pc, A, stdout, fibVars, poolVars, prangeVars, teamVars>>

\* ... and the call returns: on the root at once, on another rank when the
\* root's data has arrived in its buffer.
BcastReturn(r) ==
    /\ AtOp(r, "Bcast")
    /\ inCall[r]
    /\ bcastBuf # NoVector
    /\ A' = [A EXCEPT ![r] = bcastBuf]
    /\ inCall' = [inCall EXCEPT ![r] = FALSE]
    /\ mpi_pc' = [mpi_pc EXCEPT ![r] = @ + 1]
    /\ UNCHANGED <<size, bcastBuf, stdout, fibVars, poolVars, prangeVars, teamVars>>

mpiNext ==
    \/ \E r \in Ranks : DoPrint(r)
    \/ \E r \in Ranks : BarrierEnter(r)
    \/ \E r \in Ranks : BarrierReturn(r)
    \/ \E r \in Ranks : AssignA(r)
    \/ \E r \in Ranks : BcastEnter(r)
    \/ \E r \in Ranks : BcastReturn(r)

(***************************************************************************)
(* multiprocessing: the Monte Carlo estimate of pi over a Pool             *)
(***************************************************************************)
\* number_samples_in_total in 1..MaxSamples, number_parallel_blocks in 1..MaxBlocks.
MaxSamples == 3
MaxBlocks == 2

\* The random module's generator, scaled down: RngMod states, and random()
\* returns state / RngMod, a float of [0, 1).
RngMod == 6
RngStates == 0..(RngMod - 1)
Twist(s) == (s + 1) % RngMod

\* The worker processes of Pool(processes=number_parallel_blocks).
Workers == 1..number_parallel_blocks

\* As if all workers drew from one generator.
RngOfSharedByAll(w) == 1
\* The generator a call running in worker process w draws from: the one of
\* its own process.
RngOf(w) == w

\* x / y (true division): the exact quotient.
TrueDiv(x, y) == <<x, y>>

\* int(q) for a quotient q >= 0: truncation.
int(q) == q[1] \div q[2]

\* As if written [x] * (k - 1).
RepeatListOneShort(x, k) == [j \in 1..(k - 1) |-> x]
\* [x] * k
RepeatList(x, k) == [j \in 1..k |-> x]

\* x * x + y * y <= 1.0 for x = sx / RngMod, y = sy / RngMod; a bool, added as 0 or 1.
is_in_unit_circle(sx, sy) == IF sx * sx + sy * sy <= RngMod * RngMod THEN 1 ELSE 0

\* As if pool.map returned as soon as every task has been taken.
MapCompleteWhenQueueEmpty == taskqueue = <<>>
\* pool.map returns once a result has arrived for every entry of the list ...
MapComplete == DOMAIN results = 1..Len(number_trials_per_process)

RECURSIVE SumOver(_, _)
SumOver(f, S) == IF S = {} THEN 0 ELSE LET k == CHOOSE k \in S : TRUE IN f[k] + SumOver(f, S \ {k})

\* sum(number_in_unit_circles)
sum_list(l) == SumOver(l, DOMAIN l)

poolStart ==
    /\ number_samples_in_total \in 1..MaxSamples
    /\ number_parallel_blocks \in 1..MaxBlocks
    /\ number_samples_per_worker_task = <<0, 1>>
    /\ number_trials_per_process = <<>>
    /\ main_pc = "create_pool"
    /\ taskqueue = <<>>
    /\ wtask = [w \in Workers |-> 0]
    /\ step = [w \in Workers |-> 0]
    /\ number_trials_in_quarter_circle = [w \in Workers |-> 0]
    /\ rng = [w \in Workers |-> 0]
    /\ results = <<>>
    /\ number_in_unit_circles = <<>>
    /\ pi_estimate = <<0, 1>>
    /\ trialsOf = [k \in Workers |-> 0]
    /\ entryRng = [k \in Workers |-> 0]
    /\ finishOrder = <<>>

poolIdle ==
    /\ number_samples_in_total = 0
    /\ number_parallel_blocks = 0
    /\ number_samples_per_worker_task = <<0, 1>>
    /\ number_trials_per_process = <<>>
    /\ main_pc = "idle"
    /\ taskqueue = <<>>
    /\ wtask = <<>>
    /\ step = <<>>
    /\ number_trials_in_quarter_circle = <<>>
    /\ rng = <<>>
    /\ results = <<>>
    /\ number_in_unit_circles = <<>>
    /\ pi_estimate = <<0, 1>>
    /\ trialsOf = <<>>
    /\ entryRng = <<>>
    /\ finishOrder = <<>>

\* pool = Pool(processes=number_parallel_blocks): the worker processes start,
\* each seeding its own generator from the operating system;
\* number_samples_per_worker_task = number_samples_in_total / number_parallel_blocks
CreatePool ==
    /\ main_pc = "create_pool"
    /\ rng' \in [Workers -> RngStates]
    /\ number_samples_per_worker_task' =
          TrueDiv(number_samples_in_total, number_parallel_blocks)
    /\ main_pc' = "build_list"
    /\ UNCHANGED <<number_samples_in_total, number_parallel_blocks,
                   number_trials_per_process, taskqueue, wtask, step,
                   number_trials_in_quarter_circle, results, number_in_unit_circles,
                   pi_estimate, trialsOf, entryRng, finishOrder, fibVars, mpiVars, prangeVars, teamVars>>

\* number_trials_per_process = [number_samples_per_worker_task] * number_parallel_blocks
BuildList ==
    /\ main_pc = "build_list"
    /\ number_trials_per_process' =
          RepeatList(number_samples_per_worker_task, number_parallel_blocks)
    /\ main_pc' = "call_map"
    /\ UNCHANGED <<number_samples_in_total, number_parallel_blocks,
                   number_samples_per_worker_task, taskqueue, wtask, step,
                   number_trials_in_quarter_circle, rng, results,
                   number_in_unit_circles, pi_estimate, trialsOf, entryRng,
                   finishOrder, fibVars, mpiVars, prangeVars, teamVars>>

\* pool.map(estimate_number_points_in_quarter_circle, number_trials_per_process)
\* is called: one task per entry is queued (a pool of as many processes as
\* entries gives chunks of one entry) and the main process waits.
MapCall ==
    /\ main_pc = "call_map"
    /\ taskqueue' = [k \in 1..Len(number_trials_per_process) |-> k]
    /\ main_pc' = "in_map"
    /\ UNCHANGED <<number_samples_in_total, number_parallel_blocks,
                   number_samples_per_worker_task, number_trials_per_process, wtask,
                   step, number_trials_in_quarter_circle, rng, results,
                   number_in_unit_circles, pi_estimate, trialsOf, entryRng,
                   finishOrder, fibVars, mpiVars, prangeVars, teamVars>>

\* An idle worker takes the next task and enters
\* estimate_number_points_in_quarter_circle: number_trials_in_quarter_circle = 0
WorkerTake(w) ==
    /\ w \in Workers
    /\ wtask[w] = 0
    /\ taskqueue # <<>>
    /\ wtask' = [wtask EXCEPT ![w] = Head(taskqueue)]
    /\ taskqueue' = Tail(taskqueue)
    /\ step' = [step EXCEPT ![w] = 0]
    /\ number_trials_in_quarter_circle' =
          [number_trials_in_quarter_circle EXCEPT ![w] = 0]
    /\ entryRng' = [entryRng EXCEPT ![Head(taskqueue)] = rng[RngOf(w)]]
    /\ UNCHANGED <<number_samples_in_total, number_parallel_blocks,
                   number_samples_per_worker_task, number_trials_per_process,
                   main_pc, rng, results, number_in_unit_circles, pi_estimate,
                   trialsOf, finishOrder, fibVars, mpiVars, prangeVars, teamVars>>

\* One pass of  for step in range(int(number_estimates)):
\*   x = random.uniform(0, 1); y = random.uniform(0, 1)
\*   is_in_unit_circle = x * x + y * y <= 1.0
\*   number_trials_in_quarter_circle += is_in_unit_circle
Trial(w) ==
    /\ w \in Workers
    /\ wtask[w] # 0
    /\ step[w] < int(number_trials_per_process[wtask[w]])
    /\ LET x == rng[RngOf(w)]
           y == Twist(x)
       IN  /\ number_trials_in_quarter_circle' =
                 [number_trials_in_quarter_circle EXCEPT
                     ![w] = @ + is_in_unit_circle(x, y)]
           /\ rng' = [rng EXCEPT ![RngOf(w)] = Twist(y)]
    /\ step' = [step EXCEPT ![w] = @ + 1]
    /\ trialsOf' = [trialsOf EXCEPT ![wtask[w]] = @ + 1]
    /\ UNCHANGED <<number_samples_in_total, number_parallel_blocks,
                   number_samples_per_worker_task, number_trials_per_process,
                   main_pc, taskqueue, wtask, results, number_in_unit_circles,
                   pi_estimate, entryRng, finishOrder, fibVars, mpiVars, prangeVars, teamVars>>

\* The loop is exhausted: return number_trials_in_quarter_circle; the worker
\* sends the result back and is idle again.
WorkerFinish(w) ==
    /\ w \in Workers
    /\ wtask[w] # 0
    /\ ~(step[w] < int(number_trials_per_process[wtask[w]]))
    /\ results' = results @@ (wtask[w] :> number_trials_in_quarter_circle[w])
    /\ finishOrder' = Append(finishOrder, wtask[w])
    /\ wtask' = [wtask EXCEPT ![w] = 0]
    /\ UNCHANGED <<number_samples_in_total, number_parallel_blocks,
                   number_samples_per_worker_task, number_trials_per_process,
                   main_pc, taskqueue, step, number_trials_in_quarter_circle, rng,
                   number_in_unit_circles, pi_estimate, trialsOf, entryRng,
                   fibVars, mpiVars, prangeVars, teamVars>>

\* ... and returns them as a list in the order of the entries.
MapReturn ==
    /\ main_pc = "in_map"
    /\ MapComplete
    /\ number_in_unit_circles' = [k \in DOMAIN results |-> results[k]]
    /\ main_pc' = "estimate"
    /\ UNCHANGED <<number_samples_in_total, number_parallel_blocks,
                   number_samples_per_worker_task, number_trials_per_process,
                   taskqueue, wtask, step, number_trials_in_quarter_circle, rng,
                   results, pi_estimate, trialsOf, entryRng, finishOrder,
                   fibVars, mpiVars, prangeVars, teamVars>>

\* pi_estimate = sum(number_in_unit_circles) * 4 / number_samples_in_total
Estimate ==
    /\ main_pc = "estimate"
    /\ pi_estimate' = TrueDiv(sum_list(number_in_unit_circles) * 4, number_samples_in_total)
    /\ main_pc' = "done"
    /\ UNCHANGED <<number_samples_in_total, number_parallel_blocks,
                   number_samples_per_worker_task, number_trials_per_process,
                   taskqueue, wtask, step, number_trials_in_quarter_circle, rng,
                   results, number_in_unit_circles, trialsOf, entryRng,
                   finishOrder, fibVars, mpiVars, prangeVars, teamVars>>

MainStep == CreatePool \/ BuildList \/ MapCall \/ MapReturn \/ Estimate
WorkerStep(w) == WorkerTake(w) \/ Trial(w) \/ WorkerFinish(w)

poolNext ==
    \/ CreatePool
    \/ BuildList
    \/ MapCall
    \/ \E w \in Workers : WorkerTake(w)
    \/ \E w \in Workers : Trial(w)
    \/ \E w \in Workers : WorkerFinish(w)
    \/ MapReturn
    \/ Estimate

(***************************************************************************)
(* cython.parallel: the prange sum                                         *)
(***************************************************************************)
\* cdef int n = 30
n_cell == 30

\* The team has 1..MaxThreads threads (1: the cell compiled without OpenMP).
MaxThreads == 2
\* The iterations are split into 1..MaxChunks chunks of equal length (the
\* last one may be shorter); loop lengths 0..MaxChunks are tried besides
\* n_cell, so that chunks of a single iteration occur.
MaxChunks == 3

Threads == 0..(nthreads - 1)

\* As if sum were shared: all threads add into one copy.
CopyOfSharedByAll(t) == 0
\* sum += i in a prange makes sum a reduction variable: every thread adds
\* into a copy of its own, which starts at 0.
CopyOf(t) == t

\* The number of chunks of c iterations that cover k iterations.
NumChunks(k, c) == (k + c - 1) \div c

prangeStart ==
    /\ n \in (0..MaxChunks) \cup {n_cell}
    /\ sum = 0
    /\ nthreads \in 1..MaxThreads
    /\ chunk \in {IF n = 0 THEN 1 ELSE NumChunks(n, k) : k \in 1..MaxChunks}
    /\ todo = {c * chunk : c \in 0..(NumChunks(n, chunk) - 1)}
    /\ pr_pc = [t \in Threads |-> "idle"]
    /\ i = [t \in Threads |-> 0]
    /\ acc = [t \in Threads |-> 0]
    /\ reg = [t \in Threads |-> 0]
    /\ shown = <<>>

prangeIdle ==
    /\ n = 0
    /\ sum = 0
    /\ nthreads = 0
    /\ chunk = 0
    /\ todo = {}
    /\ pr_pc = <<>>
    /\ i = <<>>
    /\ acc = <<>>
    /\ reg = <<>>
    /\ shown = <<>>

\* for i in prange(n, nogil=True): a thread is handed a chunk of iterations
\* that no thread has been handed yet.
TakeChunk(t) ==
    /\ t \in Threads
    /\ pr_pc[t] = "idle"
    /\ \E first \in todo :
          /\ todo' = todo \ {first}
          /\ i' = [i EXCEPT ![t] = first]
    /\ pr_pc' = [pr_pc EXCEPT ![t] = "load"]
    /\ UNCHANGED <<n, sum, nthreads, chunk, acc, reg, shown,
                   fibVars, mpiVars, poolVars, teamVars>>

\* sum += i, first half: read the thread's copy of sum.
Load(t) ==
    /\ t \in Threads
    /\ pr_pc[t] = "load"
    /\ reg' = [reg EXCEPT ![t] = acc[CopyOf(t)]]
    /\ pr_pc' = [pr_pc EXCEPT ![t] = "store"]
    /\ UNCHANGED <<n, sum, nthreads, chunk, todo, i, acc, shown,
                   fibVars, mpiVars, poolVars, teamVars>>

\* sum += i, second half: write it back increased by i; on to the next
\* iteration of the chunk, if there is one.
Store(t) ==
    /\ t \in Threads
    /\ pr_pc[t] = "store"
    /\ acc' = [acc EXCEPT ![CopyOf(t)] = reg[t] + i[t]]
    /\ i' = [i EXCEPT ![t] = @ + 1]
    /\ pr_pc' = [pr_pc EXCEPT ![t] =
                    IF (i[t] + 1) % chunk # 0 /\ i[t] + 1 < n THEN "load" ELSE "idle"]
    /\ UNCHANGED <<n, sum, nthreads, chunk, todo, reg, shown,
                   fibVars, mpiVars, poolVars, teamVars>>

\* A thread with no more iterations to run leaves the loop: its copy is
\* added to sum in one step. It may leave while chunks remain only if
\* another thread is still there to run them.
Reduce(t) ==
    /\ t \in Threads
    /\ pr_pc[t] = "idle"
    /\ todo = {} \/ \E u \in Threads \ {t} : pr_pc[u] # "joined"
    /\ sum' = sum + acc[t]
    /\ pr_pc' = [pr_pc EXCEPT ![t] = "joined"]
    /\ UNCHANGED <<n, nthreads, chunk, todo, i, acc, reg, shown,
                   fibVars, mpiVars, poolVars, teamVars>>

\* print(sum), after the loop
ShowSum ==
    /\ nthreads > 0
    /\ \A t \in Threads : pr_pc[t] = "joined"
    /\ shown = <<>>
    /\ shown' = <<sum>>
    /\ UNCHANGED <<n, sum, nthreads, chunk, todo, pr_pc, i, acc, reg,
                   fibVars, mpiVars, poolVars, teamVars>>

prangeNext ==
    \/ \E t \in Threads : TakeChunk(t)
    \/ \E t \in Threads : Load(t)
    \/ \E t \in Threads : Store(t)
    \/ \E t \in Threads : Reduce(t)
    \/ ShowSum

(***************************************************************************)
(* cython.parallel: the with nogil, parallel() block                       *)
(***************************************************************************)
\* The team has 1..MaxTeam threads.
MaxTeam == 3

TeamThreads == 0..(team - 1)

\* As if the variables were shared by the team.
PrivateOfSharedByAll(t) == 0
\* A variable assigned in a parallel block is private: every thread has a
\* copy of its own.
PrivateOf(t) == t

\* openmp.omp_get_num_threads()
omp_get_num_threads == team

\* openmp.omp_get_thread_num(), called by thread t
omp_get_thread_num(t) == t

teamStart ==
    /\ team \in 1..MaxTeam
    /\ tm_pc = [t \in TeamThreads |-> 1]
    /\ num_threads = [t \in TeamThreads |-> 0]
    /\ thread_id = [t \in TeamThreads |-> 0]
    /\ terminal = <<>>

teamIdle ==
    /\ team = 0
    /\ tm_pc = <<>>
    /\ num_threads = <<>>
    /\ thread_id = <<>>
    /\ terminal = <<>>

\* num_threads = openmp.omp_get_num_threads()
SetNumThreads(t) ==
    /\ t \in TeamThreads
    /\ tm_pc[t] = 1
    /\ num_threads' = [num_threads EXCEPT ![PrivateOf(t)] = omp_get_num_threads]
    /\ tm_pc' = [tm_pc EXCEPT ![t] = 2]
    /\ UNCHANGED <<team, thread_id, terminal, fibVars, mpiVars, poolVars, prangeVars>>

\* printf("Number of threads: %d\n", num_threads)
PrintfNumThreads(t) ==
    /\ t \in TeamThreads
    /\ tm_pc[t] = 2
    /\ terminal' = Append(terminal, <<t, "Number of threads", num_threads[PrivateOf(t)]>>)
    /\ tm_pc' = [tm_pc EXCEPT ![t] = 3]
    /\ UNCHANGED <<team, num_threads, thread_id, fibVars, mpiVars, poolVars, prangeVars>>

\* thread_id = openmp.omp_get_thread_num()
SetThreadId(t) ==
    /\ t \in TeamThreads
    /\ tm_pc[t] = 3
    /\ thread_id' = [thread_id EXCEPT ![PrivateOf(t)] = omp_get_thread_num(t)]
    /\ tm_pc' = [tm_pc EXCEPT ![t] = 4]
    /\ UNCHANGED <<team, num_threads, terminal, fibVars, mpiVars, poolVars, prangeVars>>

\* printf("Thread ID: %d\n", thread_id)
PrintfThreadId(t) ==
    /\ t \in TeamThreads
    /\ tm_pc[t] = 4
    /\ terminal' = Append(terminal, <<t, "Thread ID", thread_id[PrivateOf(t)]>>)
    /\ tm_pc' = [tm_pc EXCEPT ![t] = 5]
    /\ UNCHANGED <<team, num_threads, thread_id, fibVars, mpiVars, poolVars, prangeVars>>

teamNext ==
    \/ \E t \in TeamThreads : SetNumThreads(t)
    \/ \E t \in TeamThreads : PrintfNumThreads(t)
    \/ \E t \in TeamThreads : SetThreadId(t)
    \/ \E t \in TeamThreads : PrintfThreadId(t)

(***************************************************************************)
(* Specifications: one per example                                         *)
(***************************************************************************)
InitFib == fibStart /\ mpiIdle /\ poolIdle /\ prangeIdle /\ teamIdle
SpecFib == InitFib /\ [][fibNext]_vars

InitMPI == mpiStart /\ fibIdle /\ poolIdle /\ prangeIdle /\ teamIdle
SpecMPI == InitMPI /\ [][mpiNext]_vars

InitPool == poolStart /\ fibIdle /\ mpiIdle /\ prangeIdle /\ teamIdle
SpecPool == InitPool /\ [][poolNext]_vars
\* The operating system schedules the main process and every worker process
\* again and again.
SpecPoolFair ==
    /\ SpecPool
    /\ WF_vars(MainStep)
    /\ \A w \in 1..MaxBlocks : WF_vars(WorkerStep(w))

InitPrange == prangeStart /\ fibIdle /\ mpiIdle /\ poolIdle /\ teamIdle
SpecPrange == InitPrange /\ [][prangeNext]_vars

InitTeam == teamStart /\ fibIdle /\ mpiIdle /\ poolIdle /\ prangeIdle
SpecTeam == InitTeam /\ [][teamNext]_vars

\* Any one of the examples.
Init == InitFib \/ InitMPI \/ InitPool \/ InitPrange \/ InitTeam
Next == fibNext \/ mpiNext \/ poolNext \/ prangeNext \/ teamNext
Spec == Init /\ [][Next]_vars

(***************************************************************************)
(* Claims                                                                  *)
(***************************************************************************)
\* ---- claims about fib

RECURSIVE Fibonacci(_)
Fibonacci(k) == IF k = 0 THEN 0 ELSE IF k = 1 THEN 1 ELSE Fibonacci(k - 1) + Fibonacci(k - 2)

\* C6: the Python fib returns the n-th Fibonacci number for every n >= 0 of
\* the range (fib(0) = 0, fib(1) = 1, fib(n) = fib(n-1) + fib(n-2)), and
\* while it loops a is the i-th Fibonacci number.
C6_FibIsFibonacci ==
    fib_n >= 0 =>
        /\ fib_pc["python"] = "loop" => fib_a["python"] = Fibonacci(fib_i["python"])
        /\ fib_pc["python"] = "returned" => fib_ret["python"] = Fibonacci(fib_n)

C6_Witness ==
    /\ fib_n = 10
    /\ fib_pc["python"] = "returned"
    /\ fib_ret["python"] = 55

\* C7: run side by side, the three versions hold the same (a, b) after the
\* same number of loop iterations and return the same value.
C7_SameBehaviour ==
    \A v, w \in Versions :
        /\ (fib_pc[v] # "idle" /\ fib_pc[w] # "idle" /\ fib_i[v] = fib_i[w]) =>
               (fib_a[v] = fib_a[w] /\ fib_b[v] = fib_b[w])
        /\ (fib_pc[v] = "returned" /\ fib_pc[w] = "returned") =>
               fib_ret[v] = fib_ret[w]

\* ---- claims about the mpi4py script

Printed(r, line) == \E e \in stdout : e[1] = r /\ e[2] = line
Finished(r) == mpi_pc[r] = Len(Program) + 1
BcastPos == CHOOSE p \in 1..Len(Program) : Program[p].op = "Bcast"
HelloBarrierPos ==
    CHOOSE p \in 1..Len(Program) :
        /\ Program[p].op = "Barrier"
        /\ \A p2 \in 1..(p - 1) : Program[p2].op # "Barrier"

\* C1: once Bcast has returned on a rank, that rank's A is the vector rank 0
\* held before the broadcast, (0, 1, 2, 3, 4); when every rank has reached
\* its final print, all ranks hold (and have printed) the same vector.
C1_BcastDeliversRootVector ==
    /\ \A r \in Ranks :
          mpi_pc[r] > BcastPos => (A[r] = <<0, 1, 2, 3, 4>> /\ A[r] = bcastBuf)
    /\ (\A r \in Ranks : Finished(r)) =>
          \A r, q \in Ranks : A[r] = A[q] /\ <<r, "A", A[q]>> \in stdout

C1_Witness ==
    /\ size = 3
    /\ mpi_pc[1] > BcastPos
    /\ A[1] = <<0, 1, 2, 3, 4>>
    /\ mpi_pc[2] = BcastPos
    /\ A[2] = [j \in 1..N |-> 9]

\* C2: no rank returns from a Barrier before every rank has entered it; so
\* no rank prints its A line before every rank has printed its "Running on"
\* header, and no rank passes the hello cell's barrier before every rank has
\* printed its Hello line.
C2_BarrierWaitsForEveryone ==
    /\ \A r \in Ranks : \A p \in 1..Len(Program) :
          (Program[p].op = "Barrier" /\ mpi_pc[r] > p) =>
              \A q \in Ranks : Entered(q, p)
    /\ \A r \in Ranks :
          Printed(r, "A") => \A q \in Ranks : Printed(q, "Running on")
    /\ \A r \in Ranks :
          mpi_pc[r] > HelloBarrierPos => \A q \in Ranks : Printed(q, "Hello")

C2_Witness ==
    /\ size = 3
    /\ Printed(0, "A")
    /\ mpi_pc[1] = BcastPos - 1
    /\ mpi_pc[2] = BcastPos - 2 /\ inCall[2]

\* ---- claims about the Pool example

MapReturned == main_pc \in {"estimate", "done"}
Submitted == 1..Len(number_trials_per_process)
TimesExecuted(k) == Cardinality({j \in 1..Len(finishOrder) : finishOrder[j] = k})

\* C3: the value pool.map returns has as many results as
\* number_trials_per_process has entries, which is number_parallel_blocks:
\* one result per submitted task, the k-th being the result of the k-th
\* entry, in whatever order the workers finished.
C3_OneResultPerTask ==
    MapReturned =>
        /\ Len(number_in_unit_circles) = Len(number_trials_per_process)
        /\ Len(number_in_unit_circles) = number_parallel_blocks
        /\ \A k \in Submitted : number_in_unit_circles[k] = results[k]

C3_Witness ==
    /\ MapReturned
    /\ number_parallel_blocks = 2
    /\ Len(number_in_unit_circles) = 2
    /\ finishOrder = <<2, 1>>

\* C5: each of the number_parallel_blocks tasks performs
\* number_samples_in_total / number_parallel_blocks trials, and all tasks
\* together perform exactly number_samples_in_total trials, the value the
\* summed count is divided by.
C5_EvenApportionment ==
    main_pc = "done" =>
        /\ \A k \in 1..number_parallel_blocks :
              trialsOf[k] * number_parallel_blocks = number_samples_in_total
        /\ SumOver(trialsOf, 1..number_parallel_blocks) = number_samples_in_total
        /\ pi_estimate[2] = number_samples_in_total

\* C9: pool.map returns only after every submitted task has been executed to
\* completion, each exactly once (and none is ever executed twice); under
\* fair scheduling every submitted task is eventually executed and pool.map
\* eventually returns.
C9_MapWaitsAndReturns ==
    /\ [](\A k \in Submitted : TimesExecuted(k) <= 1)
    /\ [](MapReturned => \A k \in Submitted : TimesExecuted(k) = 1)
    /\ <>(MapReturned /\ Submitted = 1..number_parallel_blocks
            /\ \A k \in Submitted : k \in DOMAIN results)

C9_Witness ==
    /\ main_pc = "estimate"
    /\ number_samples_in_total = 3
    /\ \A k \in 1..2 : TimesExecuted(k) = 1 /\ trialsOf[k] = 1

\* A step of the call of the estimator that worker w is running.
CallStep(w) ==
    /\ w \in Workers
    /\ wtask[w] # 0
    /\ wtask'[w] = wtask[w]
    /\ step'[w] = step[w] + 1

\* Nothing but the local variables of w's call and the generators changes.
OnlyLocalsOf(w) ==
    /\ \A u \in Workers \ {w} :
          /\ step'[u] = step[u]
          /\ number_trials_in_quarter_circle'[u] = number_trials_in_quarter_circle[u]
    /\ UNCHANGED <<number_samples_in_total, number_parallel_blocks,
                   number_samples_per_worker_task, number_trials_per_process,
                   main_pc, taskqueue, wtask, results, number_in_unit_circles,
                   pi_estimate, fibVars, mpiVars, prangeVars, teamVars>>

\* Two completed calls with the same argument, begun in the same generator
\* state, returned the same result.
SameStateSameResult ==
    \A j, k \in DOMAIN results :
        (/\ number_trials_per_process[j] = number_trials_per_process[k]
         /\ entryRng[j] = entryRng[k]) => results[j] = results[k]

\* C10 as stated: the estimator is a pure function: a call changes no state
\* outside its own local variables, and two calls with the same argument
\* from the same state return the same result.
C10_PureFunction ==
    /\ [][\A w \in Workers : CallStep(w) => (OnlyLocalsOf(w) /\ rng' = rng)]_vars
    /\ []SameStateSameResult

\* C10 as amended: a call changes no state outside its own local variables
\* except the state of the random generator of the process that runs it
\* (every other process's generator is left alone), and two calls with the
\* same argument begun in the same generator state return the same result.
C10_PureButForOwnGenerator ==
    /\ [][\A w \in Workers : CallStep(w) =>
            (OnlyLocalsOf(w) /\ \A u \in Workers \ {w} : rng'[u] = rng[u])]_vars
    /\ []SameStateSameResult

C10_Witness ==
    /\ number_parallel_blocks = 2
    /\ DOMAIN results = {1, 2}
    /\ entryRng[1] = entryRng[2]
    /\ results[1] = results[2]
    /\ results[1] < trialsOf[1]
    /\ rng[1] # entryRng[1]

\* ---- claims about the prange sum

LoopDone == nthreads > 0 /\ \A t \in Threads : pr_pc[t] = "joined"

\* C4: after the prange loop sum is 0 + 1 + ... + (n-1), which is 435 for
\* n = 30, however the iterations were handed to the threads and however
\* the threads interleaved; print(sum) shows that value.
C4_NoLostUpdate ==
    /\ LoopDone => (2 * sum = n * (n - 1) /\ (n = 30 => sum = 435))
    /\ shown # <<>> => (2 * shown[1] = n * (n - 1) /\ (n = 30 => shown[1] = 435))

C4_Witness ==
    /\ n = 30
    /\ nthreads = 2
    /\ chunk = 10
    /\ shown = <<435>>
    /\ \A t \in Threads : acc[t] > 0

\* ---- claims about the nogil/parallel block

Lines(text) == {j \in 1..Len(terminal) : terminal[j][2] = text}
TeamDone == team > 0 /\ \A t \in TeamThreads : tm_pc[t] = 5

\* C8: every thread of the team of T prints "Number of threads: T" and then
\* "Thread ID: k" with k its own number: no thread prints another thread's
\* ID, and when the block ends each ID 0..T-1 has been printed exactly once
\* and the thread count T times.
C8_OwnThreadId ==
    /\ \A j \in Lines("Number of threads") : terminal[j][3] = team
    /\ \A j \in Lines("Thread ID") :
          /\ terminal[j][3] = terminal[j][1]
          /\ \E k \in 1..(j - 1) :
                terminal[k] = <<terminal[j][1], "Number of threads", team>>
    /\ TeamDone =>
          /\ \A k \in TeamThreads :
                Cardinality({j \in Lines("Thread ID") : terminal[j][3] = k}) = 1
          /\ Cardinality(Lines("Number of threads")) = team
          /\ Len(terminal) = 2 * team

C8_Witness ==
    /\ team = 3
    /\ TeamDone
    /\ terminal[1] = <<2, "Number of threads", 3>>
    /\ terminal[2] = <<0, "Number of threads", 3>>
    /\ terminal[3] = <<2, "Thread ID", 2>>
    /\ terminal[6] = <<0, "Thread ID", 0>>

====
